---- MODULE Spec2Model ----
(***************************************************************************)
(* The subscription manager of AT_Proto_PubSub                             *)
(* (src/internal/subscription/manager.go, the current version of the file, *)
(* lines 795-1454), the firehose callback that drives BroadcastEvent and   *)
(* the WebSocket connection handler (src/internal/api/handlers.go).        *)
(*                                                                         *)
(* Strings are sequences of one-character strings.  Wall-clock time is an  *)
(* integer counted in units of ten minutes.  A peer is a *websocket.Conn,  *)
(* identified by a number.  A filter key is a number: key i stands for the *)
(* i-th 32-character hexadecimal string drawn from crypto/rand, which is   *)
(* taken never to repeat; ShortKey stands for a caller-supplied path of    *)
(* three characters that is no generated key.                              *)
(***************************************************************************)
EXTENDS Integers, Sequences, FiniteSets, TLC

\* ------------------------------------------------------------- bounds
NumPeers == 2
MaxFilters == 2
MaxBroadcasts == 2
MaxTime == 2
MaxShutdowns == 2
\* Manager.maxConnections, the configured cap (NewManagerWithConfig)
maxConnections == 2

\* performPeriodicCleanup: const gracePeriod = 10 * time.Minute, one time unit
gracePeriod == 1

Peers == 1..NumPeers
\* the calls of Shutdown, in the order in which they begin; Spec and
\* BroadcastSpec have the first call only, ShutdownSpec has them all
ShutdownCalls == 1..MaxShutdowns
FirstShutdown == {c \in ShutdownCalls : c = 1}
GeneratedKeys == 1..MaxFilters
ShortKey == MaxFilters + 1
AllKeys == GeneratedKeys \cup {ShortKey}

\* len(filterKey): hex.EncodeToString of 16 bytes, or the three-character path
KeyLen(k) == IF k = ShortKey THEN 3 ELSE 32

\* ------------------------------------------------------------- strings
UpperChars == <<"A","B","C","D","E","F","G","H","I","J","K","L","M",
                "N","O","P","Q","R","S","T","U","V","W","X","Y","Z">>
LowerChars == <<"a","b","c","d","e","f","g","h","i","j","k","l","m",
                "n","o","p","q","r","s","t","u","v","w","x","y","z">>

Range(s) == {s[i] : i \in 1..Len(s)}

\* regexp `[a-zA-Z]` of validateFilterContent
IsLetter(c) == c \in Range(UpperChars) \cup Range(LowerChars)

ToLowerChar(c) ==
    IF c \in Range(UpperChars)
    THEN LowerChars[CHOOSE i \in 1..Len(UpperChars) : UpperChars[i] = c]
    ELSE c

\* strings.ToLower
ToLower(s) == [i \in 1..Len(s) |-> ToLowerChar(s[i])]

\* strings.HasPrefix
HasPrefix(s, prefix) ==
    /\ Len(s) >= Len(prefix)
    /\ SubSeq(s, 1, Len(prefix)) = prefix

\* strings.Contains
Contains(s, sub) ==
    \E i \in 0..(Len(s) - Len(sub)) : SubSeq(s, i + 1, i + Len(sub)) = sub

RECURSIVE SplitFrom(_, _, _)
SplitFrom(s, sep, cur) ==
    IF s = <<>> THEN <<cur>>
    ELSE IF Head(s) = sep
         THEN <<cur>> \o SplitFrom(Tail(s), sep, <<>>)
         ELSE SplitFrom(Tail(s), sep, Append(cur, Head(s)))

\* strings.Split(s, sep) for a one-character separator
Split(s, sep) == SplitFrom(s, sep, <<>>)

IsSpace(c) == c \in {" ", "\t", "\n", "\r"}

RECURSIVE TrimLeft(_)
TrimLeft(s) == IF s # <<>> /\ IsSpace(Head(s)) THEN TrimLeft(Tail(s)) ELSE s

RECURSIVE TrimRight(_)
TrimRight(s) ==
    IF s # <<>> /\ IsSpace(s[Len(s)])
    THEN TrimRight(SubSeq(s, 1, Len(s) - 1))
    ELSE s

\* strings.TrimSpace
TrimSpace(s) == TrimRight(TrimLeft(s))

\* ------------------------------------------------------------- matcher
\* An op's Record is nil (kind "nil"), a JSON object (kind "map", with the
\* text, message and content it carries, "" when absent) or any other JSON
\* value (kind "other"), which json.Unmarshal cannot put into RecordContent.

\* a variant of RecordText that reads the text field only
RecordTextOnly(record) == record.text

\* a variant of RecordText that searches the three fields
RecordTextJoined(record) == record.text \o record.message \o record.content

\* recordContainsKeywords: the text the keywords are searched in
RecordText(record) ==
    IF record.text # <<>> THEN record.text
    ELSE IF record.message # <<>> THEN record.message
    ELSE record.content

recordContainsKeywords(record, keywords) ==
    IF record.kind = "nil" \/ keywords = <<>> THEN FALSE
    ELSE IF record.kind # "map" THEN FALSE
    ELSE IF RecordText(record) = <<>> THEN FALSE
    ELSE LET keywordList == Split(keywords, ",")
             textLower == ToLower(RecordText(record))
         IN  \E i \in 1..Len(keywordList) :
                LET keyword == TrimSpace(keywordList[i])
                IN  keyword # <<>> /\ Contains(textLower, ToLower(keyword))

\* a variant of NoCriteria without the safety check
NoCriteriaNever(options) == FALSE

\* matchesFilter: the safety check, no filter criteria are set
NoCriteria(options) ==
    options.Repository = <<>> /\ options.PathPrefix = <<>> /\ options.Keyword = <<>>

matchesFilter(event, options) ==
    IF NoCriteria(options)
    THEN FALSE
    ELSE IF options.Repository # <<>> /\ event.Did # options.Repository
    THEN FALSE
    ELSE IF /\ options.PathPrefix # <<>>
            /\ ~ \E i \in 1..Len(event.Ops) : HasPrefix(event.Ops[i].Path, options.PathPrefix)
    THEN FALSE
    ELSE IF /\ options.Keyword # <<>>
            /\ ~ \E i \in 1..Len(event.Ops) :
                    recordContainsKeywords(event.Ops[i].Record, options.Keyword)
    THEN FALSE
    ELSE TRUE

\* ------------------------------------------------------------- validation
countLetters(s) == Cardinality({i \in 1..Len(s) : IsLetter(s[i])})

\* validateFilterContent: "" when valid, else the field the message names
validateFilterContent(options) ==
    IF options.Repository # <<>> /\ countLetters(options.Repository) < 3
    THEN "Repository"
    ELSE IF options.PathPrefix # <<>> /\ countLetters(options.PathPrefix) < 3
    THEN "PathPrefix"
    ELSE IF /\ options.Keyword # <<>>
            /\ \E i \in 1..Len(Split(options.Keyword, ",")) :
                  LET keyword == TrimSpace(Split(options.Keyword, ",")[i])
                  IN  keyword # <<>> /\ countLetters(keyword) < 3
    THEN "Keyword"
    ELSE ""

\* CreateFilter: the two checks that reject the options
CreateFilterAccepts(options) ==
    /\ options.Keyword # <<>>
    /\ validateFilterContent(options) = ""

\* ------------------------------------------------------------- inputs
sDid == <<"d","i","d">>
sXyz == <<"x","y","z">>

\* filter options a caller passes to CreateFilter
OptRepoCat == [Repository |-> sDid, PathPrefix |-> <<"a","p","p">>,
               Keyword |-> <<"c","a","t">>]
OptDogCat == [Repository |-> <<>>, PathPrefix |-> <<>>,
              Keyword |-> <<"D","o","g",","," ","c","a","t">>]
OptNoKeyword == [Repository |-> sDid, PathPrefix |-> <<>>, Keyword |-> <<>>]
OptShortTerm == [Repository |-> <<>>, PathPrefix |-> <<>>,
                 Keyword |-> <<"c","a","t",",","a","b">>]
FilterInputs == {OptRepoCat, OptDogCat, OptNoKeyword, OptShortTerm}

NoText == <<>>
\* events the firehose passes to BroadcastEvent
EvCat == [Did |-> sDid, Time |-> "t1", Kind |-> "commit",
          Ops |-> << [Action |-> "create", Path |-> <<"a","p","p","/","1">>,
                      Record |-> [kind |-> "map",
                                  text |-> <<"m","y"," ","C","a","t">>,
                                  message |-> NoText, content |-> NoText]] >>]
EvDog == [Did |-> sXyz, Time |-> "t2", Kind |-> "commit",
          Ops |-> << [Action |-> "create", Path |-> <<"w","e","b","/","2">>,
                      Record |-> [kind |-> "map", text |-> NoText,
                                  message |-> <<"h","o","t"," ","d","o","g">>,
                                  content |-> NoText]] >>]
Events == {EvCat, EvDog}

\* the arguments of matchesFilter called on its own: every combination of an
\* empty and a set field, with keyword lists of one term, of two terms with
\* spaces and capitals, and of separators only
sApp == <<"a","p","p">>
MatchOptions ==
    [Repository : {<<>>, sDid}, PathPrefix : {<<>>, sApp},
     Keyword : {<<>>, <<"c","a","t">>, <<"D","o","g",","," ","c","a","t">>,
                <<" ",",">>}]

MapRecord(text, message, content) ==
    [kind |-> "map", text |-> text, message |-> message, content |-> content]
NilRecord == [kind |-> "nil", text |-> NoText, message |-> NoText, content |-> NoText]
OtherRecord == [kind |-> "other", text |-> NoText, message |-> NoText, content |-> NoText]
MakeOp(path, record) == [Action |-> "create", Path |-> path, Record |-> record]
MakeEvent(did, ops) == [Did |-> did, Time |-> "t3", Kind |-> "commit", Ops |-> ops]
sCat == <<"c","a","t">>
sBird == <<"b","i","r","d">>
pApp1 == <<"a","p","p","/","1">>
pWeb2 == <<"w","e","b","/","2">>
pAp == <<"a","p">>
MatchOps ==
    { <<>>,
      <<MakeOp(pApp1, NilRecord), MakeOp(pWeb2, MapRecord(sCat, NoText, NoText))>>,
      <<MakeOp(pWeb2, MapRecord(sCat, NoText, NoText))>>,
      <<MakeOp(pApp1, OtherRecord)>>,
      <<MakeOp(pApp1, MapRecord(NoText, NoText, <<"a"," ","C","A","T">>))>>,
      <<MakeOp(pApp1, MapRecord(sBird, sCat, NoText))>>,
      <<MakeOp(pAp, MapRecord(NoText, <<"d","o","g","s">>, sBird))>>,
      <<MakeOp(<<"x","a","p","p">>, MapRecord(<<"c","a"," ","t">>, NoText, NoText))>> }
MatchEvents ==
    Events \cup {MakeEvent(did, ops) : did \in {sDid, sXyz}, ops \in MatchOps}

\* the options CreateFilter is called with on its own: fields that are empty,
\* that have three letters, that have two letters and a digit or a slash, and
\* keyword lists with a short term, of separators only, with letters apart
\* from digits, and with two letters outside ASCII. A string is the sequence
\* of its code points; the code point U+00E9 (e acute) is written "U+00E9".
eAcute == "U+00E9"
ValidationInputs ==
    [Repository : {<<>>, sDid, <<"a","b","1">>},
     PathPrefix : {<<>>, sApp, <<"/","a">>},
     Keyword : {<<>>, sCat, <<"D","o","g",","," ","c","a","t">>,
                <<"c","a","t",",","a","b">>, <<",", " ", ",">>,
                <<eAcute, "t", eAcute>>, <<"a","1","b","2","c">>, <<"a","b">>}]

\* ------------------------------------------------------------- state
VARIABLES
    subscriptions,      \* Manager.subscriptions: key -> Subscription
    totalConnections,   \* Manager.totalConnections
    mu,                 \* Manager.mu: who holds the read lock, who waits in Lock()
    nextKey,            \* number of keys generateFilterKey has returned
    now,                \* time.Now()
    closed,             \* connections on which Close has been called
    cleanupRunning,     \* Manager.cleanupRunning
    cleanupStop,        \* number of values in the channel Manager.cleanupStop
    rpc,                \* the cleanup goroutine: "loop", "sweep" or "exited"
    rnow,               \* performPeriodicCleanup's local now
    spc,                \* each Shutdown call: "idle", "stopped" or "done"
    bpc,                \* the firehose goroutine inside BroadcastEvent
    bev,                \* BroadcastEvent's event
    btodo,              \* keys the range over m.subscriptions has yet to visit
    bsub,               \* the subscription broadcastToSubscription works on
    bsnap,              \* connections: the snapshot of sub.Connections
    bconns,             \* connections of the snapshot not yet written to
    bcur,               \* the connection WriteJSON is writing to
    bdead,              \* deadConnections
    removedCount,       \* removedCount
    recording,          \* whether this behaviour keeps the three histories
    passed,             \* history: the events passed to BroadcastEvent, in order
    sent,               \* history: every WriteJSON of an event message
    deletedBy,          \* history: the operation that deleted each filter
    attached,           \* history: the <<key, conn>> AddConnectionWithResult added
    shutClosed,         \* history: the connections Shutdown has called Close on
    hpc,                \* handleWebSocket of each peer: where its goroutine is
    hkey,               \* handleWebSocket of each peer: path, the key of the URL
    rdpc,               \* the read goroutine of each handleWebSocket
    hdone,              \* whether the read goroutine's send on done was received
    counting,           \* whether the per-keyword send counters are observed
    MessagesSent,       \* metriks.MessagesSent: the counter of each keyword label
    fargs,              \* the arguments of a call made on its own: <<event,
                        \* options>> of matchesFilter, <<options>> of CreateFilter
    fres,               \* that call's result, <<>> until it has returned; in
                        \* KeySpec the keys CreateFilter has returned so far
    writing             \* per connection, the goroutines inside a write on it

regvars == <<subscriptions, totalConnections, nextKey>>
lockvars == <<mu>>
timevars == <<now>>
connvars == <<closed, writing>>
reapvars == <<cleanupRunning, cleanupStop, rpc, rnow>>
shutvars == <<spc>>
metricvars == <<counting, MessagesSent>>
bcastvars == <<bpc, bev, btodo, bsub, bsnap, bconns, bcur, bdead, removedCount,
               metricvars>>
histvars == <<recording, passed, sent, deletedBy, attached, shutClosed>>
handvars == <<hpc, hkey, rdpc, hdone>>
funvars == <<fargs, fres>>
vars == <<regvars, lockvars, timevars, connvars, reapvars, shutvars,
          bcastvars, histvars, handvars, funvars>>

NoKey == ShortKey + 1
NoPeer == NumPeers + 1
NoEvent == [Did |-> <<>>, Time |-> "", Kind |-> "", Ops |-> <<>>]
Firehose == "firehose"

\* NewManagerWithConfig, followed by startPeriodicCleanup
InitManager ==
    /\ subscriptions = <<>>
    /\ totalConnections = 0
    /\ mu = [readers |-> {}, waiting |-> {}]
    /\ nextKey = 0
    /\ now = 0
    /\ closed = {}
    /\ cleanupRunning = TRUE
    /\ cleanupStop = 0
    /\ rpc = "loop"
    /\ rnow = 0
    /\ MessagesSent = <<>>
    /\ spc = [c \in ShutdownCalls |-> "idle"]
    /\ bpc = "idle"
    /\ bev = NoEvent
    /\ btodo = {}
    /\ bsub = NoKey
    /\ bsnap = {}
    /\ bconns = {}
    /\ bcur = NoPeer
    /\ bdead = {}
    /\ removedCount = 0
    /\ passed = <<>>
    /\ sent = <<>>
    /\ deletedBy = [k \in GeneratedKeys |-> ""]
    /\ attached = {}
    /\ shutClosed = {}
    /\ hpc = [p \in Peers |-> "new"]
    /\ hkey = [p \in Peers |-> NoKey]
    /\ rdpc = [p \in Peers |-> "none"]
    /\ hdone = [p \in Peers |-> FALSE]
    /\ writing = [p \in Peers |-> {}]

\* no call is being made on its own
NoCall == fargs = <<>> /\ fres = <<>>

Init == InitManager /\ recording = FALSE /\ counting = FALSE /\ NoCall

\* ------------------------------------------------------------- Manager.mu
\* m.mu.Lock() returns only when no goroutine holds the read lock.  Every
\* operation that takes the write lock runs to its Unlock without blocking,
\* so it is one step, enabled when Lock() can return.
CanLock == mu.readers = {}

\* m.mu.RLock() blocks while a goroutine waits in Lock()
CanRLock == mu.waiting = {}

\* delete(m.subscriptions, key)
DeleteKeys(subs, keys) == [k \in (DOMAIN subs) \ keys |-> subs[k]]

\* ------------------------------------------------------------- queries
\* the models.FilterSubscription built from a subscription
\* GetSubscription's copy with the time of the last attach as its CreatedAt
FilterSubscriptionLastActive(sub) ==
    [FilterKey |-> sub.FilterKey, Options |-> sub.Options,
     CreatedAt |-> IF sub.LastConnectionAt = <<>> THEN sub.CreatedAt
                   ELSE sub.LastConnectionAt[1],
     Connections |-> Cardinality(sub.Connections)]

FilterSubscription(sub) ==
    [FilterKey |-> sub.FilterKey, Options |-> sub.Options,
     CreatedAt |-> sub.CreatedAt, Connections |-> Cardinality(sub.Connections)]

\* GetSubscription on the registry subs: <<>> for (nil, false)
GetSubscription(subs, filterKey) ==
    IF filterKey \notin DOMAIN subs
    THEN <<>>
    ELSE <<FilterSubscription(subs[filterKey])>>

\* GetSubscriptions on the registry subs, as a set (the slice has map order)
GetSubscriptions(subs) == {FilterSubscription(subs[k]) : k \in DOMAIN subs}

\* ------------------------------------------------------------- CreateFilter
\* generateFilterKey when rand.Read yields bytes it has not yielded before:
\* the next unused key
generateFilterKey == nextKey + 1

\* generateFilterKey: the keys it can return.  The 16 bytes of rand.Read, or
\* the digits of time.Now().UnixNano() when rand.Read fails, are not compared
\* with the keys in use, so a key returned before can be returned again.
KeyOutcomes == GeneratedKeys

NewSubscription(filterKey, options) ==
    [FilterKey |-> filterKey, Options |-> options, CreatedAt |-> now,
     LastConnectionAt |-> <<>>, Connections |-> {}]

\* m.subscriptions[filterKey] = &Subscription{...}
Registered(options, filterKey) ==
    [k \in (DOMAIN subscriptions) \cup {filterKey} |->
        IF k = filterKey
        THEN NewSubscription(filterKey, options)
        ELSE subscriptions[k]]

\* a variant of RegistryAfterCreate that registers before it validates
RegistryAfterCreateUnchecked(options, filterKey) == Registered(options, filterKey)

\* the registry when CreateFilter returns: the two early returns come before
\* the registration
RegistryAfterCreate(options, filterKey) ==
    IF CreateFilterAccepts(options) THEN Registered(options, filterKey)
    ELSE subscriptions

\* what CreateFilter returns: the key it generated, no key for ""
CreateFilterReturns(options, filterKey) ==
    IF CreateFilterAccepts(options) THEN {filterKey} ELSE {}

\* CreateFilter in which generateFilterKey() returns filterKey
CreateFilterWithKey(options, filterKey) ==
    /\ nextKey < MaxFilters
    /\ CreateFilterAccepts(options) => CanLock
    /\ nextKey' = IF CreateFilterAccepts(options) THEN nextKey + 1 ELSE nextKey
    /\ subscriptions' = RegistryAfterCreate(options, filterKey)
    /\ UNCHANGED totalConnections
    /\ UNCHANGED <<lockvars, timevars, connvars, reapvars, shutvars,
                   bcastvars, histvars>>

CreateFilter(options) == CreateFilterWithKey(options, generateFilterKey)

\* ------------------------------------------------------------- Attach
\* a variant of AtCapacity that lets one connection past the limit
AtCapacityOffByOne == totalConnections > maxConnections

AtCapacity == totalConnections >= maxConnections

\* AddConnectionWithResult: the ErrorCode it returns, "" for Success;
\* "PANIC" when filterKey[:8] is evaluated on a key shorter than 8 bytes
AddConnectionCode(filterKey) ==
    IF AtCapacity THEN "MAX_CONNECTIONS_REACHED"
    ELSE IF filterKey \notin DOMAIN subscriptions
         THEN IF KeyLen(filterKey) < 8 THEN "PANIC" ELSE "INVALID_FILTER_KEY"
         ELSE ""

\* AddConnectionWithResult: the LastConnectionAt it stores in sub
\* a variant of ConnectionTime that keeps the time of the first attach
ConnectionTimeFirst(sub) ==
    IF sub.LastConnectionAt = <<>> THEN <<now>> ELSE sub.LastConnectionAt

ConnectionTime(sub) == <<now>>

AddConnectionWithResult(filterKey, conn) ==
    /\ CanLock
    /\ IF AddConnectionCode(filterKey) # ""
       THEN UNCHANGED regvars
       ELSE /\ subscriptions' =
                 [subscriptions EXCEPT
                    ![filterKey].Connections = @ \cup {conn},
                    ![filterKey].LastConnectionAt = ConnectionTime(subscriptions[filterKey])]
            /\ totalConnections' = totalConnections + 1
            /\ UNCHANGED nextKey
    /\ attached' = IF recording /\ AddConnectionCode(filterKey) = ""
                   THEN attached \cup {<<filterKey, conn>>}
                   ELSE attached
    /\ UNCHANGED <<lockvars, timevars, connvars, reapvars, shutvars,
                   bcastvars, recording, passed, sent, deletedBy, shutClosed>>

\* ------------------------------------------------------------- Detach
\* RemoveConnection: the condition under which it deletes the filter
\* a variant of RemoveDeletesFilter in which len(sub.Connections) is read
\* before the delete
RemoveDeletesFilterStale(wasConnected, connectionCount) ==
    wasConnected /\ connectionCount + 1 = 0

RemoveDeletesFilter(wasConnected, connectionCount) ==
    wasConnected /\ connectionCount = 0

RemoveConnection(filterKey, conn) ==
    /\ CanLock
    /\ IF filterKey \notin DOMAIN subscriptions
       THEN UNCHANGED regvars
       ELSE LET sub == subscriptions[filterKey]
                wasConnected == conn \in sub.Connections
                remaining == sub.Connections \ {conn}
            IN  /\ totalConnections' =
                     IF wasConnected THEN totalConnections - 1 ELSE totalConnections
                /\ subscriptions' =
                     IF RemoveDeletesFilter(wasConnected, Cardinality(remaining))
                     THEN DeleteKeys(subscriptions, {filterKey})
                     ELSE [subscriptions EXCEPT ![filterKey].Connections = remaining]
                /\ deletedBy' =
                     IF RemoveDeletesFilter(wasConnected, Cardinality(remaining))
                     THEN [deletedBy EXCEPT ![filterKey] = "RemoveConnection"]
                     ELSE deletedBy
                /\ UNCHANGED nextKey
    /\ filterKey \notin DOMAIN subscriptions => UNCHANGED deletedBy
    /\ UNCHANGED <<lockvars, timevars, connvars, reapvars, shutvars,
                   bcastvars, recording, passed, sent, attached, shutClosed>>

\* ------------------------------------------------------------- clock
Tick ==
    /\ now < MaxTime
    /\ now' = now + 1
    /\ UNCHANGED <<regvars, lockvars, connvars, reapvars, shutvars,
                   bcastvars, histvars>>

\* ------------------------------------------------------------- Broadcast
\* BroadcastEvent runs on the firehose goroutine: the sequential scheduler
\* (firehose/client.go, Start) hands it one commit at a time.

\* a variant of ShouldDeliver that delivers every event to every filter
ShouldDeliverAlways(event, filterKey) == TRUE

\* the condition of `if m.matchesFilter(event, sub.Options)`
ShouldDeliver(event, filterKey) ==
    matchesFilter(event, subscriptions[filterKey].Options)

\* models.WSMessage carrying the EnrichedATEvent
EventMessage(filterKey, event) ==
    [Type |-> "event", Did |-> event.Did, Time |-> event.Time,
     Original |-> event.Time, FilterKey |-> subscriptions[filterKey].FilterKey]

\* a variant of ConnectionsSnapshot that takes every connection of the server
ConnectionsSnapshotAll(filterKey) == Peers

\* broadcastToSubscription: connections, the copy of sub.Connections
ConnectionsSnapshot(filterKey) == subscriptions[filterKey].Connections

\* BroadcastEvent: the labels of `for _, keyword := range keywords`, each
\* term of the filter's keyword list trimmed, the empty ones skipped
RECURSIVE TrimmedTerms(_)
TrimmedTerms(keywords) ==
    IF keywords = <<>> THEN <<>>
    ELSE IF TrimSpace(Head(keywords)) = <<>> THEN TrimmedTerms(Tail(keywords))
    ELSE <<TrimSpace(Head(keywords))>> \o TrimmedTerms(Tail(keywords))

KeywordLabels(options) == TrimmedTerms(Split(options.Keyword, ","))

\* metriks.MessagesSent.WithLabelValues(keyword).Inc() for each label in turn
RECURSIVE IncrementEach(_, _)
IncrementEach(counters, labels) ==
    IF labels = <<>> THEN counters
    ELSE IncrementEach(
            [l \in (DOMAIN counters) \cup {Head(labels)} |->
                (IF l \in DOMAIN counters THEN counters[l] ELSE 0)
                + (IF l = Head(labels) THEN 1 ELSE 0)],
            Tail(labels))

\* the counters once broadcastToSubscription has returned for the filter
CountKeywords(filterKey) ==
    IF counting
    THEN IncrementEach(MessagesSent, KeywordLabels(subscriptions[filterKey].Options))
    ELSE MessagesSent

\* BroadcastEvent up to the first iteration of the range loop
BroadcastEnter(event) ==
    /\ bpc = "idle"
    /\ recording => Len(passed) < MaxBroadcasts
    /\ CanRLock
    /\ mu' = [mu EXCEPT !.readers = @ \cup {Firehose}]
    /\ bev' = event
    /\ btodo' = DOMAIN subscriptions
    /\ bpc' = "range"
    /\ passed' = IF recording THEN Append(passed, event) ELSE passed
    /\ UNCHANGED <<regvars, timevars, connvars, reapvars, shutvars,
                   bsub, bsnap, bconns, bcur, bdead, removedCount, recording,
                   sent, deletedBy, attached, shutClosed, metricvars>>

\* one iteration of `for _, sub := range m.subscriptions`, up to the write
\* loop of broadcastToSubscription (the snapshot is taken under sub.mu.RLock);
\* with an empty snapshot broadcastToSubscription returns at once and the
\* keywords of the filter are counted
BroadcastVisit(filterKey) ==
    /\ bpc = "range"
    /\ filterKey \in btodo
    /\ btodo' = btodo \ {filterKey}
    /\ IF /\ ShouldDeliver(bev, filterKey)
          /\ ConnectionsSnapshot(filterKey) # {}
       THEN /\ bsub' = filterKey
            /\ bsnap' = ConnectionsSnapshot(filterKey)
            /\ bconns' = ConnectionsSnapshot(filterKey)
            /\ bdead' = {}
            /\ bpc' = "write"
            /\ UNCHANGED MessagesSent
       ELSE /\ MessagesSent' = IF ShouldDeliver(bev, filterKey)
                               THEN CountKeywords(filterKey)
                               ELSE MessagesSent
            /\ UNCHANGED <<bsub, bsnap, bconns, bdead, bpc>>
    /\ UNCHANGED <<regvars, lockvars, timevars, connvars, reapvars, shutvars,
                   bev, bcur, removedCount, histvars, counting>>

\* a variant of RestOfSnapshot in which the write loop does not advance
RestOfSnapshotKeeping(conns, conn) == conns

\* the connections left to write to once conn has been taken from the snapshot
RestOfSnapshot(conns, conn) == conns \ {conn}

\* SetWriteDeadline (which never fails) and the start of conn.WriteJSON
BroadcastWriteBegin(conn) ==
    /\ bpc = "write"
    /\ conn \in bconns
    /\ bconns' = RestOfSnapshot(bconns, conn)
    /\ bcur' = conn
    /\ writing' = [writing EXCEPT ![conn] = @ \cup {Firehose}]
    /\ bpc' = "writing"
    /\ UNCHANGED <<regvars, lockvars, timevars, closed, reapvars, shutvars,
                   bev, btodo, bsub, bsnap, bdead, removedCount, histvars,
                   metricvars>>

\* conn.WriteJSON returns: nil, or an error (always one on a closed connection);
\* after the last write without a dead connection broadcastToSubscription
\* returns and the keywords of the filter are counted
BroadcastWriteEnd(ok) ==
    /\ bpc = "writing"
    /\ ok => bcur \notin closed
    /\ writing' = [writing EXCEPT ![bcur] = @ \ {Firehose}]
    /\ sent' = IF recording
               THEN Append(sent, [call |-> Len(passed), key |-> bsub,
                                  options |-> subscriptions[bsub].Options,
                                  connections |-> bsnap, conn |-> bcur,
                                  ok |-> ok, msg |-> EventMessage(bsub, bev)])
               ELSE sent
    /\ bcur' = NoPeer
    /\ LET dead == IF ok THEN bdead ELSE bdead \cup {bcur}
       IN  IF bconns # {}
           THEN /\ bpc' = "write" /\ bdead' = dead
                /\ UNCHANGED <<bsub, bsnap, MessagesSent>>
           ELSE IF dead # {}
           THEN /\ bpc' = "cleanup" /\ bdead' = dead
                /\ UNCHANGED <<bsub, bsnap, MessagesSent>>
           ELSE /\ bpc' = "range" /\ bdead' = {} /\ bsub' = NoKey /\ bsnap' = {}
                /\ MessagesSent' = CountKeywords(bsub)
    /\ UNCHANGED <<regvars, lockvars, timevars, closed, reapvars, shutvars,
                   bev, btodo, bconns, removedCount, recording, passed,
                   deletedBy, attached, shutClosed, counting>>

\* the registry after the dead connections are taken out of sub.Connections
\* a variant of RegistryAfterCleanup that deletes a filter left empty, as
\* RemoveConnection does
RegistryAfterCleanupDeleting ==
    IF subscriptions[bsub].Connections \ bdead = {}
    THEN DeleteKeys(subscriptions, {bsub})
    ELSE [subscriptions EXCEPT ![bsub].Connections = @ \ bdead]

RegistryAfterCleanup ==
    [subscriptions EXCEPT ![bsub].Connections = @ \ bdead]

\* `if len(deadConnections) > 0`: under sub.mu.Lock the dead connections are
\* taken out of the set and closed; then the goroutine calls m.mu.Lock()
BroadcastCleanupConnections ==
    /\ bpc = "cleanup"
    /\ removedCount' = Cardinality(bdead \cap subscriptions[bsub].Connections)
    /\ subscriptions' = RegistryAfterCleanup
    /\ closed' = closed \cup bdead
    /\ mu' = [mu EXCEPT !.waiting = @ \cup {Firehose}]
    /\ bpc' = "lock"
    /\ UNCHANGED <<totalConnections, nextKey, timevars, writing, reapvars,
                   shutvars, bev, btodo, bsub, bsnap, bconns, bcur, bdead,
                   histvars, metricvars>>

\* m.mu.Lock() returns; m.totalConnections -= removedCount; m.mu.Unlock()
BroadcastCleanupCount ==
    /\ bpc = "lock"
    /\ CanLock
    /\ totalConnections' = totalConnections - removedCount
    /\ mu' = [mu EXCEPT !.waiting = @ \ {Firehose}]
    /\ bpc' = "range"
    /\ bsub' = NoKey
    /\ bsnap' = {}
    /\ bdead' = {}
    /\ removedCount' = 0
    /\ MessagesSent' = CountKeywords(bsub)
    /\ UNCHANGED <<subscriptions, nextKey, timevars, connvars, reapvars,
                   shutvars, bev, btodo, bconns, bcur, histvars, counting>>

\* the range loop is over: the deferred m.mu.RUnlock()
BroadcastReturn ==
    /\ bpc = "range"
    /\ btodo = {}
    /\ mu' = [mu EXCEPT !.readers = @ \ {Firehose}]
    /\ bpc' = "idle"
    /\ bev' = NoEvent
    /\ UNCHANGED <<regvars, timevars, connvars, reapvars, shutvars,
                   btodo, bsub, bsnap, bconns, bcur, bdead, removedCount,
                   histvars, metricvars>>

\* every step of BroadcastEvent
BroadcastStep ==
    \/ \E event \in Events : BroadcastEnter(event)
    \/ \E filterKey \in GeneratedKeys : BroadcastVisit(filterKey)
    \/ \E conn \in Peers : BroadcastWriteBegin(conn)
    \/ \E ok \in BOOLEAN : BroadcastWriteEnd(ok)
    \/ BroadcastCleanupConnections
    \/ BroadcastCleanupCount
    \/ BroadcastReturn

\* ------------------------------------------------------------- reaper
\* a variant of shouldDelete that deletes at the grace period, not after it
shouldDeleteAtGrace(sub, t) ==
    /\ Cardinality(sub.Connections) = 0
    /\ IF sub.LastConnectionAt = <<>>
       THEN t - sub.CreatedAt >= gracePeriod
       ELSE t - sub.LastConnectionAt[1] >= gracePeriod

\* a variant of shouldDelete without the grace period
shouldDeleteEmpty(sub, t) == Cardinality(sub.Connections) = 0

\* performPeriodicCleanup: shouldDelete for one subscription
shouldDelete(sub, t) ==
    /\ Cardinality(sub.Connections) = 0
    /\ IF sub.LastConnectionAt = <<>>
       THEN t - sub.CreatedAt > gracePeriod
       ELSE t - sub.LastConnectionAt[1] > gracePeriod

\* performPeriodicCleanup: filtersToDelete
filtersToDelete(subs, t) == {k \in DOMAIN subs : shouldDelete(subs[k], t)}

\* a variant of SweepAt that stops at the first filter it deletes
SweepAtFirst(subs, t) ==
    DeleteKeys(subs, {k \in filtersToDelete(subs, t) :
                        \A j \in filtersToDelete(subs, t) : k <= j})

\* performPeriodicCleanup: the registry after the sweep that read the time t
SweepAt(subs, t) == DeleteKeys(subs, filtersToDelete(subs, t))

\* the cleanup goroutine receives from cleanupTicker.C and enters
\* performPeriodicCleanup, which reads time.Now() before it locks
ReaperTick ==
    /\ rpc = "loop"
    /\ rpc' = "sweep"
    /\ rnow' = now
    /\ UNCHANGED <<regvars, lockvars, timevars, connvars, cleanupRunning,
                   cleanupStop, shutvars, bcastvars, histvars>>

\* performPeriodicCleanup from m.mu.Lock() to the deferred Unlock
performPeriodicCleanup ==
    /\ rpc = "sweep"
    /\ CanLock
    /\ subscriptions' = SweepAt(subscriptions, rnow)
    /\ deletedBy' = [k \in GeneratedKeys |->
                        IF k \in DOMAIN subscriptions /\ k \notin DOMAIN subscriptions'
                        THEN "performPeriodicCleanup"
                        ELSE deletedBy[k]]
    /\ rpc' = "loop"
    /\ rnow' = 0
    /\ UNCHANGED <<totalConnections, nextKey, lockvars, timevars, connvars,
                   cleanupRunning, cleanupStop, shutvars, bcastvars,
                   recording, passed, sent, attached, shutClosed>>

\* the cleanup goroutine receives from cleanupStop and returns
ReaperStop ==
    /\ rpc = "loop"
    /\ cleanupStop > 0
    /\ cleanupStop' = cleanupStop - 1
    /\ cleanupRunning' = FALSE
    /\ rpc' = "exited"
    /\ UNCHANGED <<regvars, lockvars, timevars, connvars, rnow, shutvars,
                   bcastvars, histvars>>

\* ------------------------------------------------------------- Shutdown
\* the number of Shutdown calls that have begun
nShutdowns == Cardinality({c \in ShutdownCalls : spc[c] # "idle"})

\* Shutdown call c calls StopPeriodicCleanup: under m.mu, a non-blocking send
\* on cleanupStop (capacity 1) when cleanupRunning
StopPeriodicCleanup(c) ==
    /\ spc[c] = "idle"
    /\ c > 1 => spc[c - 1] # "idle"
    /\ CanLock
    /\ spc' = [spc EXCEPT ![c] = "stopped"]
    /\ IF cleanupRunning
       THEN /\ cleanupStop' = IF cleanupStop < 1 THEN cleanupStop + 1 ELSE cleanupStop
            /\ cleanupRunning' = FALSE
       ELSE UNCHANGED <<cleanupStop, cleanupRunning>>
    /\ UNCHANGED <<regvars, lockvars, timevars, connvars, rpc, rnow,
                   bcastvars, histvars>>

\* the connections on which Shutdown calls conn.Close()
ShutdownCloses ==
    UNION {subscriptions[k].Connections : k \in DOMAIN subscriptions}

\* a variant of ConnectionsAfterShutdown that leaves the closed connections
\* in the set
ConnectionsKept(sub) == sub.Connections

\* Shutdown: sub.Connections = make(map[*websocket.Conn]bool)
ConnectionsAfterShutdown(sub) == {}

\* the rest of Shutdown call c: under m.mu every connection is closed, every
\* connection set replaced by an empty one, totalConnections set to 0
Shutdown(c) ==
    /\ spc[c] = "stopped"
    /\ CanLock
    /\ closed' = closed \cup ShutdownCloses
    /\ shutClosed' = IF recording THEN shutClosed \cup ShutdownCloses ELSE shutClosed
    /\ subscriptions' =
         [k \in DOMAIN subscriptions |->
            [subscriptions[k] EXCEPT
               !.Connections = ConnectionsAfterShutdown(subscriptions[k])]]
    /\ totalConnections' = 0
    /\ spc' = [spc EXCEPT ![c] = "done"]
    /\ UNCHANGED <<nextKey, lockvars, timevars, writing, reapvars,
                   bcastvars, recording, passed, sent, deletedBy, attached>>

\* ------------------------------------------------------------- handleWebSocket
\* The WebSocket handler of api/handlers.go, one per upgraded connection: the
\* handler goroutine, and the read goroutine it starts. Peer p stands for the
\* *websocket.Conn of its request.
Handler == "handler"
Reader == "reader"

\* s.subscriptions.AddConnectionWithResult(path, conn); a panic in it ends
\* the handler goroutine
HandlerAttach(p, path) ==
    /\ hpc[p] = "new"
    /\ AddConnectionWithResult(path, p)
    /\ hkey' = [hkey EXCEPT ![p] = path]
    /\ hpc' = [hpc EXCEPT ![p] =
                 IF AddConnectionCode(path) = "" THEN "welcome"
                 ELSE IF AddConnectionCode(path) = "PANIC" THEN "panicked"
                 ELSE "error"]
    /\ UNCHANGED <<rdpc, hdone>>

\* the handler goroutine enters conn.WriteJSON / conn.WriteMessage: the error
\* message, the welcome message, or (on ticker.C) the protocol-level ping
HandlerWriteBegin(p) ==
    /\ hpc[p] \in {"error", "welcome", "loop"}
    /\ hpc' = [hpc EXCEPT ![p] =
                 CASE hpc[p] = "error" -> "errorWrite"
                   [] hpc[p] = "welcome" -> "welcomeWrite"
                   [] hpc[p] = "loop" -> "pingWrite"]
    /\ writing' = [writing EXCEPT ![p] = @ \cup {Handler}]
    /\ UNCHANGED <<regvars, lockvars, timevars, closed, reapvars, shutvars,
                   bcastvars, histvars, hkey, rdpc, hdone>>

\* the write of the handler goroutine returns: after the error message the
\* connection is closed; after the welcome message (a failure is only
\* logged) the read goroutine is started; a failed ping ends the loop, and
\* the deferred close(done) runs
HandlerWriteEnd(p, ok) ==
    /\ hpc[p] \in {"errorWrite", "welcomeWrite", "pingWrite"}
    /\ ok => p \notin closed
    /\ writing' = [writing EXCEPT ![p] = @ \ {Handler}]
    /\ hpc' = [hpc EXCEPT ![p] =
                 CASE hpc[p] = "errorWrite" -> "done"
                   [] hpc[p] = "welcomeWrite" -> "loop"
                   [] hpc[p] = "pingWrite" -> IF ok THEN "loop" ELSE "return"]
    /\ closed' = IF hpc[p] = "errorWrite" THEN closed \cup {p} ELSE closed
    /\ rdpc' = IF hpc[p] = "welcomeWrite" THEN [rdpc EXCEPT ![p] = "read"] ELSE rdpc
    /\ UNCHANGED <<regvars, lockvars, timevars, reapvars, shutvars,
                   bcastvars, histvars, hkey, hdone>>

\* `case <-done: return`, and the deferred close(done)
HandlerDone(p) ==
    /\ hpc[p] = "loop"
    /\ hdone[p]
    /\ hpc' = [hpc EXCEPT ![p] = "return"]
    /\ UNCHANGED <<regvars, lockvars, timevars, connvars, reapvars, shutvars,
                   bcastvars, histvars, hkey, rdpc, hdone>>

\* the deferred s.subscriptions.RemoveConnection(path, conn)
HandlerRemove(p) ==
    /\ hpc[p] = "return"
    /\ RemoveConnection(hkey[p], p)
    /\ hpc' = [hpc EXCEPT ![p] = "close"]
    /\ UNCHANGED <<hkey, rdpc, hdone>>

\* the deferred conn.Close()
HandlerClose(p) ==
    /\ hpc[p] = "close"
    /\ closed' = closed \cup {p}
    /\ hpc' = [hpc EXCEPT ![p] = "done"]
    /\ UNCHANGED <<regvars, lockvars, timevars, writing, reapvars, shutvars,
                   bcastvars, histvars, hkey, rdpc, hdone>>

ClientMessages == {"ping", "get_filter", "hello"}

\* conn.ReadJSON returns a client message; unless it is a get_filter for a
\* filter that is gone, the read goroutine enters conn.WriteJSON with the
\* reply (pong, filter_info or echo)
ReaderReceive(p, msgType) ==
    /\ rdpc[p] = "read"
    /\ p \notin closed
    /\ msgType = "get_filter" => CanRLock
    /\ IF msgType = "get_filter" /\ GetSubscription(subscriptions, hkey[p]) = <<>>
       THEN UNCHANGED <<rdpc, writing>>
       ELSE /\ rdpc' = [rdpc EXCEPT ![p] = "reply"]
            /\ writing' = [writing EXCEPT ![p] = @ \cup {Reader}]
    /\ UNCHANGED <<regvars, lockvars, timevars, closed, reapvars, shutvars,
                   bcastvars, histvars, hpc, hkey, hdone>>

\* the deferred send on done of the read goroutine: received if the handler
\* goroutine waits in its select, dropped if it is busy; a send on the closed
\* channel panics
ReaderExit(p) ==
    /\ rdpc' = [rdpc EXCEPT ![p] =
                  IF hpc[p] \in {"return", "close", "done"} THEN "panicked" ELSE "exited"]
    /\ hdone' = [hdone EXCEPT ![p] = @ \/ hpc[p] = "loop"]

\* the write of the read goroutine returns: on an error the goroutine returns
ReaderWriteEnd(p, ok) ==
    /\ rdpc[p] = "reply"
    /\ ok => p \notin closed
    /\ writing' = [writing EXCEPT ![p] = @ \ {Reader}]
    /\ IF ok
       THEN rdpc' = [rdpc EXCEPT ![p] = "read"] /\ UNCHANGED hdone
       ELSE ReaderExit(p)
    /\ UNCHANGED <<regvars, lockvars, timevars, closed, reapvars, shutvars,
                   bcastvars, histvars, hpc, hkey>>

\* conn.ReadJSON returns an error (the client went away, the read deadline
\* passed, the connection was closed): the read goroutine returns
ReaderReadError(p) ==
    /\ rdpc[p] = "read"
    /\ ReaderExit(p)
    /\ UNCHANGED <<regvars, lockvars, timevars, connvars, reapvars, shutvars,
                   bcastvars, histvars, hpc, hkey>>

\* ------------------------------------------------------------- Spec
\* BroadcastCleanupCount is a step of the code that no reachable state
\* enables (it needs m.mu free of readers while BroadcastEvent holds its
\* read lock), so Next does not list it; BroadcastProgress does.
Next ==
    \/ \E options \in FilterInputs : CreateFilter(options) /\ UNCHANGED <<handvars, funvars>>
    \/ \E filterKey \in AllKeys, conn \in Peers : AddConnectionWithResult(filterKey, conn) /\ UNCHANGED <<handvars, funvars>>
    \/ \E filterKey \in AllKeys, conn \in Peers : RemoveConnection(filterKey, conn) /\ UNCHANGED <<handvars, funvars>>
    \/ \E event \in Events : BroadcastEnter(event) /\ UNCHANGED <<handvars, funvars>>
    \/ \E filterKey \in GeneratedKeys : BroadcastVisit(filterKey) /\ UNCHANGED <<handvars, funvars>>
    \/ \E conn \in Peers : BroadcastWriteBegin(conn) /\ UNCHANGED <<handvars, funvars>>
    \/ \E ok \in BOOLEAN : BroadcastWriteEnd(ok) /\ UNCHANGED <<handvars, funvars>>
    \/ BroadcastCleanupConnections /\ UNCHANGED <<handvars, funvars>>
    \/ BroadcastReturn /\ UNCHANGED <<handvars, funvars>>
    \/ ReaperTick /\ UNCHANGED <<handvars, funvars>>
    \/ performPeriodicCleanup /\ UNCHANGED <<handvars, funvars>>
    \/ ReaperStop /\ UNCHANGED <<handvars, funvars>>
    \/ \E c \in FirstShutdown : StopPeriodicCleanup(c) /\ UNCHANGED <<handvars, funvars>>
    \/ \E c \in FirstShutdown : Shutdown(c) /\ UNCHANGED <<handvars, funvars>>
    \/ Tick /\ UNCHANGED <<handvars, funvars>>

Spec == Init /\ [][Next]_vars

\* ------------------------------------------------------------- BroadcastSpec
\* The manager with the two histories kept and the clock standing still:
\* filters are created, connections attached and detached, the manager shut
\* down, and the firehose goroutine broadcasts at most MaxBroadcasts events.
InitBroadcast == InitManager /\ recording = TRUE /\ counting = FALSE /\ NoCall

NextBroadcast ==
    \/ \E options \in FilterInputs : CreateFilter(options) /\ UNCHANGED <<handvars, funvars>>
    \/ \E filterKey \in AllKeys, conn \in Peers : AddConnectionWithResult(filterKey, conn) /\ UNCHANGED <<handvars, funvars>>
    \/ \E filterKey \in AllKeys, conn \in Peers : RemoveConnection(filterKey, conn) /\ UNCHANGED <<handvars, funvars>>
    \/ \E event \in Events : BroadcastEnter(event) /\ UNCHANGED <<handvars, funvars>>
    \/ \E filterKey \in GeneratedKeys : BroadcastVisit(filterKey) /\ UNCHANGED <<handvars, funvars>>
    \/ \E conn \in Peers : BroadcastWriteBegin(conn) /\ UNCHANGED <<handvars, funvars>>
    \/ \E ok \in BOOLEAN : BroadcastWriteEnd(ok) /\ UNCHANGED <<handvars, funvars>>
    \/ BroadcastCleanupConnections /\ UNCHANGED <<handvars, funvars>>
    \/ BroadcastReturn /\ UNCHANGED <<handvars, funvars>>
    \/ \E c \in FirstShutdown : StopPeriodicCleanup(c) /\ UNCHANGED <<handvars, funvars>>
    \/ \E c \in FirstShutdown : Shutdown(c) /\ UNCHANGED <<handvars, funvars>>

\* every step BroadcastEvent takes once it has been called
BroadcastProgress ==
    \/ \E filterKey \in GeneratedKeys : BroadcastVisit(filterKey)
    \/ \E conn \in Peers : BroadcastWriteBegin(conn)
    \/ \E ok \in BOOLEAN : BroadcastWriteEnd(ok)
    \/ BroadcastCleanupConnections
    \/ BroadcastCleanupCount
    \/ BroadcastReturn

BroadcastSpec == InitBroadcast /\ [][NextBroadcast]_vars

\* The server as it runs: filters are created through the API, connections
\* are attached and detached by handleWebSocket only, and the firehose
\* goroutine broadcasts.
NextHandler ==
    \/ \E options \in FilterInputs : CreateFilter(options) /\ UNCHANGED <<handvars, funvars>>
    \/ \E p \in Peers, path \in AllKeys : HandlerAttach(p, path) /\ UNCHANGED funvars
    \/ \E p \in Peers : HandlerWriteBegin(p) /\ UNCHANGED funvars
    \/ \E p \in Peers, ok \in BOOLEAN : HandlerWriteEnd(p, ok) /\ UNCHANGED funvars
    \/ \E p \in Peers : HandlerDone(p) /\ UNCHANGED funvars
    \/ \E p \in Peers : HandlerRemove(p) /\ UNCHANGED funvars
    \/ \E p \in Peers : HandlerClose(p) /\ UNCHANGED funvars
    \/ \E p \in Peers, msgType \in ClientMessages : ReaderReceive(p, msgType) /\ UNCHANGED funvars
    \/ \E p \in Peers, ok \in BOOLEAN : ReaderWriteEnd(p, ok) /\ UNCHANGED funvars
    \/ \E p \in Peers : ReaderReadError(p) /\ UNCHANGED funvars
    \/ \E event \in Events : BroadcastEnter(event) /\ UNCHANGED <<handvars, funvars>>
    \/ \E filterKey \in GeneratedKeys : BroadcastVisit(filterKey) /\ UNCHANGED <<handvars, funvars>>
    \/ \E conn \in Peers : BroadcastWriteBegin(conn) /\ UNCHANGED <<handvars, funvars>>
    \/ \E ok \in BOOLEAN : BroadcastWriteEnd(ok) /\ UNCHANGED <<handvars, funvars>>
    \/ BroadcastCleanupConnections /\ UNCHANGED <<handvars, funvars>>
    \/ BroadcastReturn /\ UNCHANGED <<handvars, funvars>>

HandlerSpec == Init /\ [][NextHandler]_vars

\* The manager used and shut down, by one call of Shutdown or by several,
\* one after the other or at the same time. As in handleWebSocket, a
\* connection is attached once, before anything has closed it.
NextShutdown ==
    \/ \E options \in FilterInputs : CreateFilter(options) /\ UNCHANGED <<handvars, funvars>>
    \/ \E filterKey \in GeneratedKeys, conn \in Peers \ closed :
          AddConnectionWithResult(filterKey, conn) /\ UNCHANGED <<handvars, funvars>>
    \/ \E filterKey \in GeneratedKeys, conn \in Peers :
          RemoveConnection(filterKey, conn) /\ UNCHANGED <<handvars, funvars>>
    \/ ReaperStop /\ UNCHANGED <<handvars, funvars>>
    \/ \E c \in ShutdownCalls : StopPeriodicCleanup(c) /\ UNCHANGED <<handvars, funvars>>
    \/ \E c \in ShutdownCalls : Shutdown(c) /\ UNCHANGED <<handvars, funvars>>

ShutdownSpec == InitBroadcast /\ [][NextShutdown]_vars

\* matchesFilter called on its own, on arguments drawn from MatchEvents and
\* MatchOptions
InitMatch ==
    /\ InitManager
    /\ recording = FALSE
    /\ counting = FALSE
    /\ fargs \in MatchEvents \X MatchOptions
    /\ fres = <<>>

ApplyMatchesFilter ==
    /\ fargs # <<>>
    /\ fres = <<>>
    /\ fres' = <<matchesFilter(fargs[1], fargs[2])>>
    /\ UNCHANGED <<regvars, lockvars, timevars, connvars, reapvars, shutvars,
                   bcastvars, histvars, handvars, fargs>>

NextMatch == ApplyMatchesFilter

MatchSpec == InitMatch /\ [][NextMatch]_vars

\* CreateFilter called on its own, on options drawn from ValidationInputs
InitCreate ==
    /\ InitManager
    /\ recording = FALSE
    /\ counting = FALSE
    /\ fargs \in {<<options>> : options \in ValidationInputs}
    /\ fres = <<>>

ApplyCreateFilter ==
    /\ fargs # <<>>
    /\ fres = <<>>
    /\ CreateFilter(fargs[1])
    /\ fres' = <<CreateFilterReturns(fargs[1], generateFilterKey)>>
    /\ UNCHANGED <<handvars, fargs>>

\* the caller makes another call once the last one has returned
CallCreateFilter ==
    /\ fres # <<>>
    /\ nextKey < MaxFilters
    /\ fargs' \in {<<options>> : options \in ValidationInputs}
    /\ fres' = <<>>
    /\ UNCHANGED <<regvars, lockvars, timevars, connvars, reapvars, shutvars,
                   bcastvars, histvars, handvars>>

NextCreate ==
    \/ ApplyCreateFilter
    \/ CallCreateFilter
    \/ \E filterKey \in GeneratedKeys : \E conn \in Peers :
          /\ AddConnectionWithResult(filterKey, conn)
          /\ UNCHANGED <<handvars, funvars>>

CreateSpec == InitCreate /\ [][NextCreate]_vars

\* The manager with the per-keyword send counters observed: filters are
\* created, connections attached, and the firehose goroutine broadcasts at
\* most MaxBroadcasts events.
InitMetric == InitManager /\ recording = TRUE /\ counting = TRUE /\ NoCall

NextMetric ==
    \/ \E options \in FilterInputs : CreateFilter(options) /\ UNCHANGED <<handvars, funvars>>
    \/ \E filterKey \in GeneratedKeys, conn \in Peers : AddConnectionWithResult(filterKey, conn) /\ UNCHANGED <<handvars, funvars>>
    \/ \E event \in Events : BroadcastEnter(event) /\ UNCHANGED <<handvars, funvars>>
    \/ \E filterKey \in GeneratedKeys : BroadcastVisit(filterKey) /\ UNCHANGED <<handvars, funvars>>
    \/ \E conn \in Peers : BroadcastWriteBegin(conn) /\ UNCHANGED <<handvars, funvars>>
    \/ \E ok \in BOOLEAN : BroadcastWriteEnd(ok) /\ UNCHANGED <<handvars, funvars>>
    \/ BroadcastCleanupConnections /\ UNCHANGED <<handvars, funvars>>
    \/ BroadcastReturn /\ UNCHANGED <<handvars, funvars>>

MetricSpec == InitMetric /\ [][NextMetric]_vars

\* getMatchingKeywords (MatchingTerms): the terms of the keyword list, in its
\* order and in their original spelling, that hit the extractable text of
\* some operation, each once.  The text of an operation is the first
\* non-empty of the record's text, message and content.
TermHits(event, term) ==
    \E i \in 1..Len(event.Ops) :
        /\ event.Ops[i].Record.kind = "map"
        /\ Contains(ToLower(RecordText(event.Ops[i].Record)), ToLower(term))

RECURSIVE MatchingFrom(_, _, _)
MatchingFrom(event, terms, found) ==
    IF terms = <<>> THEN found
    ELSE MatchingFrom(event, Tail(terms),
            IF TermHits(event, Head(terms)) /\ Head(terms) \notin Range(found)
            THEN Append(found, Head(terms))
            ELSE found)

\* a variant of getMatchingKeywords that returns every term of the list
getMatchingKeywordsAll(event, keywords) == TrimmedTerms(Split(keywords, ","))

getMatchingKeywords(event, keywords) ==
    MatchingFrom(event, TrimmedTerms(Split(keywords, ",")), <<>>)

\* the keyword lists getMatchingKeywords is called with on its own: empty, one
\* term, terms with spaces and capitals, separators only, a term twice with a
\* miss in between, and the same word in two spellings
KeywordLists ==
    { <<>>, sCat, <<"D","o","g",","," ","c","a","t">>, <<" ",",">>,
      <<"c","a","t",",","b","i","r","d",","," ","c","a","t">>,
      <<"C","A","T"," ",",","d","o","g",",","c","a","t">> }

\* getMatchingKeywords called on its own
InitTerms ==
    /\ InitManager
    /\ recording = FALSE
    /\ counting = FALSE
    /\ fargs \in MatchEvents \X KeywordLists
    /\ fres = <<>>

ApplyGetMatchingKeywords ==
    /\ fargs # <<>>
    /\ fres = <<>>
    /\ fres' = <<getMatchingKeywords(fargs[1], fargs[2])>>
    /\ UNCHANGED <<regvars, lockvars, timevars, connvars, reapvars, shutvars,
                   bcastvars, histvars, handvars, fargs>>

NextTerms == ApplyGetMatchingKeywords

TermsSpec == InitTerms /\ [][NextTerms]_vars

\* the records recordContainsKeywords is called with on its own: nil, not an
\* object, an object without text, and objects with one, two or three of the
\* fields text, message and content
MatchRecords ==
    { NilRecord, OtherRecord, MapRecord(NoText, NoText, NoText),
      MapRecord(sCat, NoText, NoText), MapRecord(NoText, sCat, NoText),
      MapRecord(NoText, NoText, sCat), MapRecord(sBird, sCat, NoText),
      MapRecord(sBird, NoText, sCat), MapRecord(NoText, sBird, sCat),
      MapRecord(sBird, <<"d","o","g">>, sCat),
      MapRecord(<<"m","y"," ","D","O","G","S">>, sBird, sBird) }

\* recordContainsKeywords called on its own
InitRecord ==
    /\ InitManager
    /\ recording = FALSE
    /\ counting = FALSE
    /\ fargs \in MatchRecords \X KeywordLists
    /\ fres = <<>>

ApplyRecordContainsKeywords ==
    /\ fargs # <<>>
    /\ fres = <<>>
    /\ fres' = <<recordContainsKeywords(fargs[1], fargs[2])>>
    /\ UNCHANGED <<regvars, lockvars, timevars, connvars, reapvars, shutvars,
                   bcastvars, histvars, handvars, fargs>>

NextRecord == ApplyRecordContainsKeywords

RecordSpec == InitRecord /\ [][NextRecord]_vars

\* CreateFilter with every key generateFilterKey can return: the caller keeps
\* the keys returned to it (fres), connections are attached in between, and
\* nothing is deleted
InitKeys == InitManager /\ recording = FALSE /\ counting = FALSE /\ NoCall

CreateFilterKeeping(options, filterKey) ==
    /\ CreateFilterWithKey(options, filterKey)
    /\ fres' = IF CreateFilterAccepts(options) THEN Append(fres, filterKey) ELSE fres
    /\ UNCHANGED <<handvars, fargs>>

NextKeys ==
    \/ \E options \in FilterInputs, filterKey \in KeyOutcomes :
          CreateFilterKeeping(options, filterKey)
    \/ \E filterKey \in GeneratedKeys, conn \in Peers :
          AddConnectionWithResult(filterKey, conn) /\ UNCHANGED <<handvars, funvars>>

KeySpec == InitKeys /\ [][NextKeys]_vars

\* KeySpec with connections detached as well, so that filters are deleted
NextRevive ==
    \/ NextKeys
    \/ \E filterKey \in GeneratedKeys, conn \in Peers :
          RemoveConnection(filterKey, conn) /\ UNCHANGED <<handvars, funvars>>

ReviveSpec == InitKeys /\ [][NextRevive]_vars

\* ============================================================= properties

RECURSIVE SumConnections(_, _)
\* the sum of len(sub.Connections) over the subscriptions with a key in keys
SumConnections(subs, keys) ==
    IF keys = {}
    THEN 0
    ELSE LET k == CHOOSE x \in keys : TRUE
         IN  Cardinality(subs[k].Connections) + SumConnections(subs, keys \ {k})

\* no operation of the manager is in progress
Quiescent ==
    /\ bpc = "idle"
    /\ rpc # "sweep"
    /\ \A c \in ShutdownCalls : spc[c] # "stopped"

\* C1: at every quiescent state totalConnections equals the sum of the sizes
\* of the connection sets of the live filters, also after the same peer has
\* been attached to the same filter more than once.
CounterEqualsSetSizes ==
    Quiescent => totalConnections = SumConnections(subscriptions, DOMAIN subscriptions)

\* C2: in every reachable state totalConnections is at most maxConnections.
CapRespected == totalConnections <= maxConnections

\* C2, its case: the limit is reached and AddConnectionWithResult refuses
CapReached ==
    /\ totalConnections = maxConnections
    /\ \E k \in DOMAIN subscriptions :
           /\ subscriptions[k].Connections # {}
           /\ AddConnectionCode(k) = "MAX_CONNECTIONS_REACHED"

\* C3: every call of BroadcastEvent returns and releases the registry read
\* lock, also when writes fail: while a call has not returned, the call has a
\* next step it can take (it is never left waiting on a lock for ever).
BroadcastNeverStuck == bpc # "idle" => ENABLED BroadcastProgress

\* C4: a peer whose write failed during a BroadcastEvent is removed from its
\* filter's connection set and deducted from totalConnections before a later
\* BroadcastEvent snapshots the filter: the call in which the write failed
\* does not stop before it has removed the peer and deducted it.
DeadPeersReclaimed ==
    (bdead # {} /\ ~ENABLED BroadcastProgress)
        => /\ bdead \cap subscriptions[bsub].Connections = {}
           /\ removedCount = 0

\* the number of event messages BroadcastEvent number call has attempted to
\* write to conn for the filter key
Attempts(log, call, key, conn) ==
    Cardinality({i \in 1..Len(log) :
                    /\ log[i].call = call
                    /\ log[i].key = key
                    /\ log[i].conn = conn})

\* every write in the log was for a filter the event matches, to a peer of
\* the filter's snapshot, once, with the filter's key and the event's time
WritesJustified(events, log) ==
    \A i \in 1..Len(log) :
        LET w == log[i]
        IN  /\ w.call \in 1..Len(events)
            /\ matchesFilter(events[w.call], w.options)
            /\ w.conn \in w.connections
            /\ Attempts(log, w.call, w.key, w.conn) = 1
            /\ w.msg.Type = "event"
            /\ w.msg.FilterKey = w.key
            /\ w.msg.Original = events[w.call].Time

\* C5: BroadcastEvent writes to a peer through a filter only if the event
\* matches the filter's options and the peer is in the filter's connection
\* snapshot; when both hold it attempts exactly one event message to the peer,
\* carrying the filter's key and the event's time as original timestamp; a
\* filter that does not match causes no write.
BroadcastWritesExactlyMatching ==
    [][ /\ sent' # sent => WritesJustified(passed', sent')
        /\ \A k \in GeneratedKeys :
             BroadcastVisit(k) =>
                 /\ (~matchesFilter(bev, subscriptions[k].Options)) => bpc' = "range"
                 /\ ( /\ matchesFilter(bev, subscriptions[k].Options)
                      /\ subscriptions[k].Connections # {} )
                        => bsnap' = subscriptions[k].Connections
        /\ \A ok \in BOOLEAN :
             (BroadcastWriteEnd(ok) /\ bpc' # "write") =>
                 \A p \in bsnap : Attempts(sent', Len(passed), bsub, p) = 1
      ]_vars

\* C5, its case: one call has written the event to both peers of a matching
\* filter and another filter of the registry, which does not match, got nothing
MatchingFilterServed ==
    \E i, j \in 1..Len(sent) :
        /\ sent[i].call = sent[j].call
        /\ sent[i].key = sent[j].key
        /\ sent[i].conn # sent[j].conn
        /\ \E k \in DOMAIN subscriptions :
               /\ k # sent[i].key
               /\ subscriptions[k].Connections # {}
               /\ ~matchesFilter(passed[sent[i].call], subscriptions[k].Options)
               /\ bpc = "idle"

\* C6: AddConnectionWithResult returns MAX_CONNECTIONS_REACHED whenever
\* totalConnections >= maxConnections (whatever the key), INVALID_FILTER_KEY
\* when below the limit and the key is absent, and succeeds otherwise.
AttachCodesAsSpecified ==
    \A k \in AllKeys :
        AddConnectionCode(k) =
            IF totalConnections >= maxConnections THEN "MAX_CONNECTIONS_REACHED"
            ELSE IF k \notin DOMAIN subscriptions THEN "INVALID_FILTER_KEY"
            ELSE ""

Eligible(sub, t) ==
    /\ sub.Connections = {}
    /\ \/ sub.LastConnectionAt = <<>> /\ t - sub.CreatedAt > gracePeriod
       \/ sub.LastConnectionAt # <<>> /\ t - sub.LastConnectionAt[1] > gracePeriod

DeliveredInOrder ==
    /\ \A i \in 1..Len(sent) :
           sent[i].ok =>
               /\ sent[i].call \in 1..Len(passed)
               /\ sent[i].msg.Did = passed[sent[i].call].Did
               /\ sent[i].msg.Time = passed[sent[i].call].Time
    /\ \A i, j \in 1..Len(sent) :
           ( /\ i < j
             /\ sent[i].ok /\ sent[j].ok
             /\ sent[i].key = sent[j].key
             /\ sent[i].conn = sent[j].conn )
           => sent[i].call < sent[j].call

\* C9, its case: one peer of one filter has been written two different events
TwoEventsDelivered ==
    \E i, j \in 1..Len(sent) :
        /\ i < j
        /\ sent[i].ok /\ sent[j].ok
        /\ sent[i].key = sent[j].key
        /\ sent[i].conn = sent[j].conn
        /\ sent[i].msg.Time # sent[j].msg.Time

\* C10: in no reachable state are two writes in progress on the connection of
\* one peer: a write of BroadcastEvent overlaps neither another write of
\* BroadcastEvent nor a write of the connection's handler (welcome, pong,
\* filter_info, echo, protocol-level ping).
BroadcastWritesAlone ==
    \A p \in Peers : Firehose \in writing[p] => writing[p] = {Firehose}

\* C11: a RemoveConnection on a filter issued while BroadcastEvent is writing
\* to that filter's peers completes without waiting for those writes: during
\* the write the call holds no lock that RemoveConnection needs, so
\* RemoveConnection can run.
DetachRunsDuringWrite ==
    (bpc = "writing" /\ bsub \in DOMAIN subscriptions)
        => \A p \in subscriptions[bsub].Connections :
               ENABLED RemoveConnection(bsub, p)

\* C12: BroadcastEvent writes an event to a peer through a filter only if an
\* AddConnectionWithResult of that peer to that filter had returned Success
\* before the call took its snapshot of the filter's connections.
WritesOnlyToAttached ==
    [][ /\ \A k \in GeneratedKeys :
             BroadcastVisit(k) => \A p \in bsnap' : <<k, p>> \in attached
        /\ \A p \in Peers :
             BroadcastWriteBegin(p) => (p \in bsnap /\ <<bsub, p>> \in attached)
      ]_vars

\* C12, its case: an event has been written to a peer that was attached, and
\* a peer that no AddConnectionWithResult has added has been written nothing
AttachedPeerServed ==
    \E i \in 1..Len(sent) :
        /\ sent[i].ok
        /\ <<sent[i].key, sent[i].conn>> \in attached
        /\ \E p \in Peers :
               /\ \A k \in AllKeys : <<k, p>> \notin attached
               /\ \A j \in 1..Len(sent) : sent[j].conn # p

\* C13: no operation requests the write lock of the registry while it still
\* holds the read lock of the registry, so that no operation waits for a lock
\* that it holds itself.
NoLockUpgrade == mu.readers \cap mu.waiting = {}

\* C14: within one BroadcastEvent to a filter a failed write keeps no other
\* peer of the snapshot from being written to; afterwards the peers whose
\* write succeeded are still in the connection set, the failed ones are not,
\* and totalConnections is lowered by the number of failed peers removed: once
\* the failed peers are out of the set, the call goes on to deduct them.
FailedPeersRemovedAndDeducted ==
    bpc = "lock" =>
        /\ \A p \in bsnap : Attempts(sent, Len(passed), bsub, p) = 1
        /\ bsnap \ bdead \subseteq subscriptions[bsub].Connections
        /\ bdead \cap subscriptions[bsub].Connections = {}
        /\ ENABLED BroadcastCleanupCount

\* C15: once Shutdown has begun, every AddConnectionWithResult fails with the
\* code SHUTTING_DOWN (and so adds no connection to any filter).
AttachRefusedAfterShutdown ==
    nShutdowns > 0 =>
        \A k \in AllKeys : AddConnectionCode(k) = "SHUTTING_DOWN"

\* C16: when Shutdown returns, every connection that was in the connection
\* set of any filter has been closed, the registry holds no filter and
\* totalConnections is 0.
ShutdownClearsEverything ==
    [][ (\E c \in ShutdownCalls : Shutdown(c)) =>
          /\ \A k \in DOMAIN subscriptions :
                 subscriptions[k].Connections \subseteq closed'
          /\ DOMAIN subscriptions' = {}
          /\ totalConnections' = 0
      ]_vars

ExtractableText(op) ==
    IF op.Record.kind # "map" THEN <<>>
    ELSE CHOOSE t \in {op.Record.text, op.Record.message, op.Record.content, <<>>} :
            \/ t = op.Record.text /\ t # <<>>
            \/ op.Record.text = <<>> /\ t = op.Record.message /\ t # <<>>
            \/ op.Record.text = <<>> /\ op.Record.message = <<>> /\ t = op.Record.content

\* the terms of a keyword list: its comma-separated pieces, trimmed, without
\* the empty ones
KeywordTerms(keyword) ==
    {TrimSpace(Split(keyword, ",")[i]) : i \in 1..Len(Split(keyword, ","))} \ {<<>>}

RepositoryGate(event, criteria) ==
    criteria.Repository = <<>> \/ criteria.Repository = event.Did

PathGate(event, criteria) ==
    \/ criteria.PathPrefix = <<>>
    \/ \E i \in 1..Len(event.Ops) : HasPrefix(event.Ops[i].Path, criteria.PathPrefix)

KeywordGate(event, criteria) ==
    \/ criteria.Keyword = <<>>
    \/ \E i \in 1..Len(event.Ops) : \E term \in KeywordTerms(criteria.Keyword) :
          Contains(ToLower(ExtractableText(event.Ops[i])), ToLower(term))

\* C19: for criteria with at least one non-empty field, matchesFilter returns
\* true exactly when the repository is empty or equals the event's did, the
\* path prefix is empty or begins the path of some operation, and the keyword
\* is empty or the extractable text of some operation contains one of its
\* terms; the two operations may differ.
MatchesIsConjunctionOfGates ==
    (/\ fres # <<>>
     /\ \/ fargs[2].Repository # <<>>
        \/ fargs[2].PathPrefix # <<>>
        \/ fargs[2].Keyword # <<>>)
    => fres[1] = (/\ RepositoryGate(fargs[1], fargs[2])
                  /\ PathGate(fargs[1], fargs[2])
                  /\ KeywordGate(fargs[1], fargs[2]))

\* C19 witness: matchesFilter has returned true for an event in which one
\* operation has the path prefix and only another one has the keyword in its
\* text.
GatesMetByDifferentOps ==
    /\ fres = <<TRUE>>
    /\ fargs[2].PathPrefix # <<>>
    /\ fargs[2].Keyword # <<>>
    /\ \A i \in 1..Len(fargs[1].Ops) :
          ~ (/\ HasPrefix(fargs[1].Ops[i].Path, fargs[2].PathPrefix)
             /\ recordContainsKeywords(fargs[1].Ops[i].Record, fargs[2].Keyword))

\* a letter as the claim counts it: a code point of a Unicode letter
IsUnicodeLetter(c) == IsLetter(c) \/ c = eAcute

countUnicodeLetters(s) == Cardinality({i \in 1..Len(s) : IsUnicodeLetter(s[i])})

\* I-V1: the keyword is non-empty, every non-empty field has at least 3
\* letters, and every keyword term has at least 3 letters
IV1(criteria) ==
    /\ criteria.Keyword # <<>>
    /\ \A field \in {criteria.Repository, criteria.PathPrefix, criteria.Keyword} :
          field # <<>> => countUnicodeLetters(field) >= 3
    /\ \A term \in KeywordTerms(criteria.Keyword) : countUnicodeLetters(term) >= 3

\* C20: CreateFilter succeeds, registering the filter and returning its key,
\* if and only if the criteria satisfy I-V1 (a non-empty keyword, at least 3
\* Unicode letters in every non-empty field and in every keyword term); any
\* other criteria are rejected.
CreateFilterSucceedsIffValid ==
    fres # <<>> =>
        /\ fres[1] # {} <=> IV1(fargs[1])
        /\ \A k \in DOMAIN subscriptions : IV1(subscriptions[k].Options)

\* C21: when CreateFilter rejects the criteria it returns no key and leaves the
\* registry, totalConnections and every existing filter record unchanged.
RejectedCreateChangesNothing ==
    [][(ApplyCreateFilter /\ fres' = <<{}>>)
          => /\ subscriptions' = subscriptions
             /\ totalConnections' = totalConnections]_vars

\* C21 witness: CreateFilter has returned no key while the registry holds a
\* filter with a connection.
CreateRejectedWithFilters ==
    /\ fres = <<{}>>
    /\ totalConnections > 0
    /\ \E k \in DOMAIN subscriptions : subscriptions[k].Connections # {}

\* C22: RemoveConnection removes the filter from the registry whenever the
\* filter's connection set is empty after the call, also when the peer was not
\* a member of the set (for a filter that never had a connection, say).
DetachDeletesWheneverEmpty ==
    \A k \in DOMAIN subscriptions, p \in Peers :
        LET wasConnected == p \in subscriptions[k].Connections
            remaining == subscriptions[k].Connections \ {p}
        IN  remaining = {} => RemoveDeletesFilter(wasConnected, Cardinality(remaining))

\* C23: a filter to which no connection was ever attached stays registered
\* while less than gracePeriod has passed since its CreateFilter, whatever step
\* is taken (a sweep, a broadcast, an operation on another filter), so that an
\* AddConnectionWithResult arriving then never returns INVALID_FILTER_KEY.
GraceProtectsNewFilter ==
    [][ \A k \in DOMAIN subscriptions :
          ( /\ subscriptions[k].LastConnectionAt = <<>>
            /\ now' - subscriptions[k].CreatedAt < gracePeriod )
          => /\ k \in DOMAIN subscriptions'
             /\ AddConnectionCode(k)' # "INVALID_FILTER_KEY"
      ]_vars

\* C23 witness: a peer was attached to a filter less than gracePeriod after
\* its creation, at its first attach, and the periodic cleanup has deleted an
\* older filter.
AttachedWithinGrace ==
    \E k \in DOMAIN subscriptions : \E j \in GeneratedKeys :
        /\ subscriptions[k].Connections # {}
        /\ subscriptions[k].LastConnectionAt # <<>>
        /\ subscriptions[k].LastConnectionAt[1] - subscriptions[k].CreatedAt < gracePeriod
        /\ deletedBy[j] = "performPeriodicCleanup"

\* C24: a second sweep at the clock value of the first one, with no
\* CreateFilter, attach, detach, broadcast or Shutdown in between, leaves the
\* registry as the first sweep left it: it deletes nothing.
SecondSweepDeletesNothing ==
    [][ performPeriodicCleanup
          => /\ SweepAt(subscriptions', rnow) = subscriptions'
             /\ filtersToDelete(subscriptions', rnow) = {} ]_vars

\* C24 witness: the periodic cleanup has deleted the filters it found
\* eligible, which it can at the clock value MaxTime only, and the next sweep
\* has read that same clock value.
SweptTwiceAtSameClock ==
    /\ \A k \in GeneratedKeys : deletedBy[k] = "performPeriodicCleanup"
    /\ rpc = "sweep"
    /\ rnow = now
    /\ now = MaxTime

\* C25: sending the stop signal never blocks the caller, and once the signal
\* is sent the cleanup goroutine terminates after at most the sweep it is in.
\* Stated as what both need: a caller of StopPeriodicCleanup, and a sweep that
\* runs while the signal is pending, are never left waiting for m.mu for ever;
\* whenever the lock is not free its holder has a step to take.  A goroutine
\* that has terminated sweeps no more.
ReaperStopsCleanly ==
    /\ \A c \in FirstShutdown :
          spc[c] = "idle" => (CanLock \/ ENABLED BroadcastProgress)
    /\ (cleanupStop > 0 /\ rpc = "sweep") => (CanLock \/ ENABLED BroadcastProgress)
    /\ rpc = "exited" => rnow = 0

\* the labels whose counter a step increments
IncrementedLabels ==
    {l \in DOMAIN MessagesSent' :
        l \notin DOMAIN MessagesSent \/ MessagesSent'[l] > MessagesSent[l]}

\* C26: when an event that matches a filter has been delivered via it, the
\* keyword labels whose send counter BroadcastEvent increments for that filter
\* are the terms getMatchingKeywords returns for the event and the filter's
\* keyword list: a term that did not hit the event's text is not counted.
CountedKeywordsAreMatchingTerms ==
    [][ \A k \in GeneratedKeys :
          ( /\ BroadcastWriteEnd(TRUE)
            /\ bsub = k
            /\ bpc' = "range" )
          => IncrementedLabels =
                Range(getMatchingKeywords(bev, subscriptions[k].Options.Keyword))
      ]_vars

\* the comma-separated pieces of a keyword list, trimmed, in their order
TrimmedPieces(keywordList) ==
    [i \in 1..Len(Split(keywordList, ",")) |-> TrimSpace(Split(keywordList, ",")[i])]

\* the place at which a term first appears in a keyword list
FirstPlace(keywordList, term) ==
    CHOOSE i \in DOMAIN TrimmedPieces(keywordList) :
        /\ TrimmedPieces(keywordList)[i] = term
        /\ \A j \in 1..(i - 1) : TrimmedPieces(keywordList)[j] # term

\* C27: getMatchingKeywords returns exactly the trimmed, non-empty terms of
\* the keyword list whose lower-cased form is a substring of the lower-cased
\* extractable text of some operation, each in its original spelling, none
\* twice, in the order of the list; for an empty list it returns no term.
MatchingTermsAsSpecified ==
    fres # <<>> =>
        LET event == fargs[1]
            keywordList == fargs[2]
            result == fres[1]
        IN  /\ Range(result) =
                 {term \in KeywordTerms(keywordList) :
                    \E i \in 1..Len(event.Ops) :
                       Contains(ToLower(ExtractableText(event.Ops[i])), ToLower(term))}
            /\ \A i, j \in 1..Len(result) : i # j => result[i] # result[j]
            /\ \A i, j \in 1..Len(result) :
                  i < j => FirstPlace(keywordList, result[i])
                              < FirstPlace(keywordList, result[j])
            /\ keywordList = <<>> => result = <<>>

\* C27 witness: for a list that names one term twice with a missing term in
\* between, getMatchingKeywords has returned the hit term once; and for a
\* list with one word in two spellings it has returned both, in order.
MatchingTermsReturned ==
    \/ /\ fargs[2] = <<"c","a","t",",","b","i","r","d",","," ","c","a","t">>
       /\ fres = << <<sCat>> >>
    \/ /\ fargs[2] = <<"C","A","T"," ",",","d","o","g",",","c","a","t">>
       /\ fres = << << <<"C","A","T">>, sCat >> >>

\* the first non-empty of the three text fields of a record, in that order
FirstNonEmpty(record) ==
    IF record.text # <<>> THEN record.text
    ELSE IF record.message # <<>> THEN record.message
    ELSE record.content

\* C28: the text recordContainsKeywords tests is the first non-empty of the
\* record's text, message and content, in that order: when text is non-empty
\* the message and the content are not searched, and a record that is nil or
\* has none of the three non-empty matches no keyword.
KeywordGateReadsFirstText ==
    fres # <<>> =>
        LET record == fargs[1]
            keywords == fargs[2]
        IN  /\ fres[1] =
                 ( /\ record.kind = "map"
                   /\ \E term \in KeywordTerms(keywords) :
                         Contains(ToLower(FirstNonEmpty(record)), ToLower(term)) )
            /\ (record.kind = "map" /\ record.text # <<>>) =>
                 fres[1] = (\E term \in KeywordTerms(keywords) :
                               Contains(ToLower(record.text), ToLower(term)))
            /\ ( \/ record.kind = "nil"
                 \/ record.text = <<>> /\ record.message = <<>> /\ record.content = <<>> )
                 => fres[1] = FALSE

\* C28 witness: recordContainsKeywords has returned false for a record whose
\* text lacks the keyword that its message or content holds.
LaterFieldsNotSearched ==
    /\ fres = <<FALSE>>
    /\ fargs[2] = sCat
    /\ fargs[1].text = sBird
    /\ sCat \in {fargs[1].message, fargs[1].content}

\* a sequence of terms written as a comma-separated list
RECURSIVE JoinTerms(_)
JoinTerms(terms) ==
    IF terms = <<>> THEN <<>>
    ELSE IF Len(terms) = 1 THEN Head(terms)
    ELSE Head(terms) \o <<",">> \o JoinTerms(Tail(terms))

\* a keyword list with each term trimmed and the empty terms dropped
TrimmedList(keywordList) == JoinTerms(TrimmedTerms(Split(keywordList, ",")))

\* C29: for every event and every comma-separated keyword list, matchesFilter
\* gives the same result for the list as for the list with each term trimmed
\* and the empty terms dropped; a term is compared as a case-insensitive
\* substring and a hit on one term is enough.
TrimmedListMatchesSame ==
    fres # <<>> =>
        /\ fres[1] = matchesFilter(fargs[1],
                        [fargs[2] EXCEPT !.Keyword = TrimmedList(fargs[2].Keyword)])
        /\ (fargs[2].Keyword # <<>> /\ fres[1]) =>
              \E i \in 1..Len(fargs[1].Ops) : \E term \in KeywordTerms(fargs[2].Keyword) :
                 Contains(ToLower(ExtractableText(fargs[1].Ops[i])), ToLower(term))

ReportStableWhileLive ==
    [][\A k \in GeneratedKeys :
          LET before == GetSubscription(subscriptions, k)
              after  == GetSubscription(subscriptions', k)
          IN  /\ (before # <<>> /\ after # <<>>) =>
                    /\ after[1].FilterKey = before[1].FilterKey
                    /\ after[1].Options = before[1].Options
                    /\ after[1].CreatedAt = before[1].CreatedAt
              /\ (before = <<>> /\ after # <<>>) =>
                    /\ after[1].FilterKey = k
                    /\ after[1].CreatedAt = now
                    /\ after[1].Connections = 0
                    /\ \E options \in FilterInputs :
                          CreateFilter(options) /\ after[1].Options = options
              /\ after # <<>> =>
                    after[1].Connections =
                        Cardinality(subscriptions'[k].Connections)]_vars

\* C32 witness: a filter created at time 0 is reported at time MaxTime with
\* one connection attached after its creation, after the periodic cleanup
\* deleted another filter
ReportedAfterOperations ==
    \E k \in DOMAIN subscriptions, j \in GeneratedKeys :
        /\ GetSubscription(subscriptions, k)[1].CreatedAt = 0
        /\ GetSubscription(subscriptions, k)[1].Connections = 1
        /\ now = MaxTime
        /\ subscriptions[k].LastConnectionAt = <<MaxTime>>
        /\ deletedBy[j] = "performPeriodicCleanup"

\* C33: a live filter's LastConnectionAt is unset exactly when no attach to
\* it has succeeded and otherwise is the time of the latest successful
\* attach: a new filter has none, a successful attach sets it to the clock,
\* and no other step (detach, broadcast and its cleanup of dead connections,
\* periodic cleanup, failed attach) changes it.
LastActiveTracksAttach ==
    [][\A k \in DOMAIN subscriptions' :
          LET after == subscriptions'[k].LastConnectionAt
              attach(conn) == /\ k \in DOMAIN subscriptions
                              /\ totalConnections' = totalConnections + 1
                              /\ AddConnectionCode(k) = ""
                              /\ AddConnectionWithResult(k, conn)
          IN  /\ k \notin DOMAIN subscriptions => after = <<>>
              /\ (\E conn \in Peers : attach(conn)) => after = <<now>>
              /\ (/\ k \in DOMAIN subscriptions
                  /\ after # subscriptions[k].LastConnectionAt) =>
                    \E conn \in Peers : attach(conn)]_vars

\* C33 witness: a filter holds two connections, the latest attached at time
\* MaxTime, next to a filter nothing was ever attached to
AttachedTwiceAtDifferentTimes ==
    \E k, j \in DOMAIN subscriptions :
        /\ subscriptions[k].LastConnectionAt = <<MaxTime>>
        /\ Cardinality(subscriptions[k].Connections) = 2
        /\ now = MaxTime
        /\ totalConnections = 2
        /\ subscriptions[j].LastConnectionAt = <<>>

\* C34: BroadcastEvent neither adds nor removes a filter: from its first
\* step to its last the registry holds the same filter keys, also for
\* filters without connections and for a filter whose last connection the
\* cleanup of dead connections removes.
BroadcastKeepsFilterKeys ==
    [][(bpc # "idle" \/ bpc' # "idle") =>
          DOMAIN subscriptions' = DOMAIN subscriptions]_vars

\* C34 witness: the cleanup of dead connections has removed the last
\* connection of a filter, which is still registered, next to a filter that
\* never had a connection
LastPeerCleanedFilterKept ==
    /\ bpc = "lock"
    /\ removedCount = 1
    /\ bsub \in DOMAIN subscriptions
    /\ subscriptions[bsub].Connections = {}
    /\ \E j \in DOMAIN subscriptions :
          j # bsub /\ subscriptions[j].LastConnectionAt = <<>>

\* totalConnections is not negative
CounterNotNegative == totalConnections >= 0

\* C36: totalConnections is never negative, because a connection removed by
\* the cleanup of dead connections in a broadcast and by RemoveConnection or
\* Shutdown is deducted from it exactly once: not twice, and the connections
\* the cleanup has taken out of a set (removedCount) are deducted by the step
\* of the call that follows.
RemovedPeersDeductedOnce ==
    /\ CounterNotNegative
    /\ removedCount > 0 => ENABLED BroadcastCleanupCount

\* the handler of peer p went past AddConnectionWithResult without Success
AttachFailed(p) ==
    \/ hpc[p] \in {"error", "errorWrite", "panicked"}
    \/ hpc[p] = "done" /\ rdpc[p] = "none"

\* a handler whose attach failed keeps its peer out of every connection set
\* and of every broadcast, starts no read goroutine for it, and has closed
\* the peer when it is done
FailedAttachKeptOut ==
    \A p \in Peers :
        AttachFailed(p) =>
            /\ \A k \in DOMAIN subscriptions : p \notin subscriptions[k].Connections
            /\ p \notin bsnap /\ Firehose \notin writing[p]
            /\ rdpc[p] = "none"
            /\ hpc[p] = "done" => p \in closed

\* C35: when AddConnectionWithResult fails in handleWebSocket, one error
\* message with the error code is written to the peer and the peer is closed,
\* the peer is in no connection set, no event is written to it and no
\* RemoveConnection is called for it: no handler ends before it has written
\* the error message and closed the peer.
AttachFailureReported ==
    /\ FailedAttachKeptOut
    /\ \A p \in Peers : hpc[p] # "panicked"

\* C37: the read goroutine of handleWebSocket never sends on the done channel
\* after the handler goroutine has closed it: when the handler's loop returns
\* first (after a failed ping) and the read goroutine exits later, no send on
\* a closed channel happens.
NoSendOnClosedDone == \A p \in Peers : rdpc[p] # "panicked"

\* C38: once the read goroutine of an attached peer has terminated, the
\* handler returns and calls RemoveConnection for the peer once, so that the
\* peer does not stay in the connection set: the read goroutine's send on
\* done is never lost, that is, when the read goroutine has exited the
\* handler has received its signal.
TerminationSignalKept ==
    \A p \in Peers : rdpc[p] = "exited" => hdone[p]

\* C39: the connected message is written to an attached peer before any
\* event message: no BroadcastEvent running next to the handler completes the
\* write of an event to the peer after AddConnectionWithResult has returned
\* and before the handler writes the connected message.
ConnectedBeforeEvents ==
    [][\A p \in Peers :
          (bcur = p /\ BroadcastWriteEnd(TRUE)) => hpc[p] # "welcome"]_vars

====
